---- MODULE Spec2Model ----
(***************************************************************************)
(* The pagination engine of soundcloud-rs: Client::get_stream / unfold     *)
(* (src/src/client.rs) driven through StreamingApiExt::iter and            *)
(* StreamingApiExt::get (src/src/streaming_api.rs), over a backing         *)
(* resource that serves Page { collection, next_href } values              *)
(* (src/src/page.rs).                                                      *)
(*                                                                         *)
(* One traversal is modelled poll by poll.  A step is what one poll of the *)
(* stream executes between two suspension points: from the consumer's      *)
(* demand up to a yielded element or a request in flight (Demand), and     *)
(* from the completion of a request up to the next yielded element, the    *)
(* next request in flight or the end of the stream (Resolve).              *)
(***************************************************************************)
EXTENDS Integers, Sequences, FiniteSets

\* ------------------------------------------------------------------ bounds
\* Number of distinct page URLs the backing resource serves.
MaxPages == 3
\* Largest collection length of one page.
MaxLen == 2
\* Largest page cap passed to StreamingApiExt::get.
MaxCap == 3
\* Largest element count a consumer passes to take.
MaxTake == 4
\* Two streams side by side: urls, collection length and page cap of each.
MaxPairPages == 2
MaxPairLen == 2
MaxPairCap == 1
\* Polls of a stream after the poll that returned its end.
MaxEndPolls == 2
\* Largest page size given to the builder besides the default, and the
\* number of page_size calls on one builder.
MaxPageSize == 2
MaxCalls == 2
\* The most bytes one copy writes.
MaxBytes == 1
\* The most one-shot API calls one behaviour makes.
MaxApiCalls == 1

\* u64::MAX, the cap get_stream substitutes for None.  The counter's width is
\* scaled down; it stays above every cap and every acyclic chain length, as
\* 2^64 - 1 does in the program.
U64Max == MaxPages + MaxCap + 1

\* ----------------------------------------------------------- Option, Result
None == <<>>
Some(x) == <<x>>
unwrap_or(o, d) == IF o = None THEN d ELSE o[1]

\* Result<T>: Ok(item) or Err(error), the element type of the stream.
Ok(x) == [ok |-> Some(x), err |-> None]
Err(e) == [ok |-> None, err |-> Some(e)]

\* The error a page request that fails resolves to (Error::from of the
\* transport or of the JSON decoding).
FetchError == "HttpError"

\* ------------------------------------------------------- backing resource
\* URLs of pages.  Url 1 is the URL of the first request (host + path +
\* options); the others are next_href values the server hands out.
Urls == 1..MaxPages
\* A next_href the server returned that Url::parse rejects.
BadUrl == 0

\* The items of the page at url p, in API order.
Item(p, i) == <<p, i>>
CollectionOf(p, n) == [i \in 1..n |-> Item(p, i)]

\* Page<T> values the server can answer at url p.  URLs are opaque names, so
\* they are numbered in the order a walk from url 1 first meets them: the
\* link of page p is absent, malformed, a back link or the next new url.
LinksOf(p) == {None, Some(BadUrl)} \cup {Some(q) : q \in 1..(IF p < MaxPages THEN p + 1 ELSE p)}
PagesOf(p) ==
    {[collection |-> CollectionOf(p, n), next_href |-> h] : n \in 0..MaxLen, h \in LinksOf(p)}
\* A url no walk from url 1 reaches: its content never matters.
UnusedPage == [collection |-> <<>>, next_href |-> None]

RECURSIVE Servers(_)
Servers(p) ==
    IF p = 0 THEN {<<>>}
    ELSE UNION {
        {Append(s, pg) : pg \in (IF p = 1 \/ s[p - 1].next_href = Some(p)
                                 THEN PagesOf(p) ELSE {UnusedPage})}
        : s \in Servers(p - 1)}

\* The status line of a response: reqwest's StatusCode::is_success or not.
Statuses == {"2xx", "non2xx"}
AllSuccess == [p \in Urls |-> "2xx"]

\* ------------------------------------------------------------- constants
\* page.rs: const DEFAULT_PAGE_SIZE: u32 = 15
DEFAULT_PAGE_SIZE == 15

\* A string is the sequence of its characters where its content matters.
\* u32::to_string (and format!("{}", id)): the decimal digits, most
\* significant first.
Digit(d) == <<"0", "1", "2", "3", "4", "5", "6", "7", "8", "9">>[d + 1]
RECURSIVE to_string(_)
to_string(n) ==
    IF n < 10 THEN <<Digit(n)>> ELSE Append(to_string(n \div 10), Digit(n % 10))

\* [&str]::join(","): the strings with a comma between neighbours.
RECURSIVE join(_)
join(l) ==
    IF l = <<>> THEN <<>>
    ELSE IF Len(l) = 1 THEN l[1]
    ELSE l[1] \o <<",">> \o join(Tail(l))

\* TrackRequestBuilder::new: no filter is set.
NoFilters ==
    [query |-> None, tags |-> None, filter |-> None, license |-> None,
     ids |-> None, genres |-> None]

\* ----------------------------------------------------------- query strings
\* A url is a page (its number in Urls) and a query string; a query string is
\* the sequence of its (key, value) pairs.  Url::parse and the serialization
\* of the parsed url keep the pairs of a url that parses and their order.
ClientIdPair == <<"client_id", "self">>
OffsetPair == <<"offset", "cursor">>
ForeignIdPair == <<"client_id", "foreign">>
PageSizePair == <<"page_size", to_string(DEFAULT_PAGE_SIZE)>>
PartitioningPair == <<"linked_partitioning", "true">>

\* The query strings the resource writes into a next_href.
LinkQueries ==
    {<<>>, <<OffsetPair>>, <<OffsetPair, ForeignIdPair>>,
     <<ForeignIdPair, OffsetPair, ForeignIdPair>>}
PlainLinks == [p \in Urls |-> <<OffsetPair>>]

\* PageOptions: the params map in the iteration order of its HashMap.
\* PageOptions::builder().build() has none, page_size(n) inserts two.
PageOptionsValues ==
    {<<>>, <<PartitioningPair, PageSizePair>>, <<PageSizePair, PartitioningPair>>}
\* PageOptions::default()
DefaultOptions == <<PartitioningPair, PageSizePair>>

\* Mutant of insert: the pair is pushed as onto a Vec, a key may repeat.
insert_Pushes(m, k, v) == {Append(m, <<k, v>>)}
\* HashMap::insert on a map given in its iteration order: the value of a key
\* that is present is replaced; a new key lands wherever its hash puts it.
insert(m, k, v) ==
    IF \E i \in 1..Len(m) : m[i][1] = k
    THEN {[i \in 1..Len(m) |-> IF m[i][1] = k THEN <<k, v>> ELSE m[i]]}
    ELSE {SubSeq(m, 1, j) \o <<<<k, v>>>> \o SubSeq(m, j + 1, Len(m)) : j \in 0..Len(m)}

\* PageOptionsBuilder::page_size: the maps the builder may hold afterwards.
page_size(m, n) ==
    UNION {insert(m1, "page_size", to_string(n)) :
              m1 \in insert(m, "linked_partitioning", "true")}

\* The arguments given to page_size.
PageSizeArgs == 0..MaxPageSize \cup {DEFAULT_PAGE_SIZE}

\* Mutant of serialize: an empty map serializes to an empty string.
serialize_EmptyIsSome(o) == Some(o)
\* PageOptions::serialize
serialize(o) == IF o = <<>> THEN None ELSE Some(o)

\* StreamingApi::fetch: path, or path?params when the options serialize.
fetch(o) == IF serialize(o) # None THEN <<"path", "?", serialize(o)[1]>> ELSE <<"path">>

\* Url::parse(..).query_pairs() of a url fetch made.
query_pairs(u) == IF Len(u) = 1 THEN <<>> ELSE u[3]

\* url.query_pairs().any(|(q, _)| q == "client_id")
HasClientId(q) == \E i \in 1..Len(q) : q[i][1] = "client_id"

\* Mutant of get_page: client_id is appended to every url, as parse_url does.
get_page_AlwaysAppends(q) == Append(q, ClientIdPair)
\* get_page: the query string of the request sent for a url with query q.
get_page(q) == IF ~HasClientId(q) THEN Append(q, ClientIdPair) ELSE q

\* get_pages: host + path goes to get_page.
get_pages(u) == get_page(query_pairs(u))

\* The arguments of a traversal: iter passes None, get passes Some(n).
NumPagesArgs == {None} \cup {Some(n) : n \in 0..MaxCap}

\* --------------------------------------------------------------- Vec<T>
\* Mutant of Reverse: items.reverse() is forgotten.
Reverse_Forgotten(s) == s
\* Vec::reverse
Reverse(s) == [i \in 1..Len(s) |-> s[Len(s) + 1 - i]]
\* Vec::pop takes the last element.
Last(s) == s[Len(s)]
Front(s) == SubSeq(s, 1, Len(s) - 1)

VARIABLES
    server,      \* url -> Page, the body the backing resource answers with
    status,      \* url -> status of the response the resource answers with
    query,       \* url -> query string of the url as the resource writes it
    options,     \* PageOptions given to iter or get
    arg,         \* Option<u64> given to fetch: None (iter) or Some(n) (get)
    take,        \* consumer: Some(k) when it reads through take(k), else None
    demands,     \* history: number of elements the consumer asked for
    pc,          \* position of the stream
    link,        \* cursor: next_href of the last page
    items,       \* cursor: reversed remaining items of the last page
    count,       \* cursor: pages counted so far
    pending,     \* url of the request in flight, if any
    output,      \* history: elements the stream produced, in order
    fetched,     \* history: urls of the requests sent, in order
    sent,        \* history: query string of each request sent, in order
    headers,     \* history: Authorization header of each request sent
    resolved,    \* history: outcome of each request, in order
    other,       \* a second stream, held while this one is polled, if any
    token,       \* auth_token of the Client the adapter holds
    owner_token, \* auth_token of the Client the adapter was created from
    calls,       \* history: the arguments of the page_size calls on the builder
    track_request, \* the filters of a TrackRequestBuilder
    result       \* the last call of the client that returned, if any

\* What belongs to no stream.
api == <<owner_token, calls, track_request, result>>

\* The backing resource.
resource == <<server, status, query>>

\* What no step of a traversal changes.
env == <<resource, options, arg, take, token, api>>

\* The stream and its history.
traversal == <<pc, link, items, count, pending, output, fetched, sent, headers, resolved, demands>>

vars == <<env, other, traversal>>

\* Mutant of auth_header: the header is made from the token of the client
\* the adapter was created from, as if the adapter held a reference to it.
auth_header_OfOwner(tok) ==
    IF owner_token = None THEN None ELSE Some(<<"OAuth", owner_token[1]>>)
\* get_page: the Authorization header "OAuth {token}", when there is a token.
auth_header(tok) == IF tok = None THEN None ELSE Some(<<"OAuth", tok[1]>>)

\* No call on the original client, a builder as the options show it, and no
\* track request under way.
ApiIdle ==
    /\ owner_token = None
    /\ calls = (IF options = <<>> THEN <<>> ELSE <<DEFAULT_PAGE_SIZE>>)
    /\ track_request = NoFilters
    /\ result = None

\* Mutant of get_pages_url: the page options are attached to the link again.
get_pages_url_WithOptions(q) == get_page(q \o query_pairs(fetch(options)))
\* get_pages_url: the link goes to get_page.
get_pages_url(q) == get_page(q)

\* get_stream: num_pages.unwrap_or(u64::MAX)
num_pages == unwrap_or(arg, U64Max)

\* A stream as get_stream returns it: `first` not polled yet.
Fresh ==
    /\ pc = "start"
    /\ link = None
    /\ items = <<>>
    /\ count = 0
    /\ pending = None
    /\ output = <<>>
    /\ fetched = <<>>
    /\ sent = <<>>
    /\ headers = <<>>
    /\ resolved = <<>>
    /\ demands = 0

\* iter or get on any resource, read to the end by the consumer.
Init ==
    /\ server \in Servers(MaxPages)
    /\ status = AllSuccess
    /\ query = PlainLinks
    /\ options = DefaultOptions
    /\ arg \in NumPagesArgs
    /\ take = None
    /\ other = None
    /\ token = None
    /\ ApiIdle
    /\ Fresh

\* iter or get on a resource that answers some urls with a non-2xx status
\* and a body that still decodes as a Page.
HttpInit ==
    /\ server \in Servers(MaxPages)
    /\ status \in [Urls -> Statuses]
    /\ query = PlainLinks
    /\ options = DefaultOptions
    /\ arg \in NumPagesArgs
    /\ take = None
    /\ other = None
    /\ token = None
    /\ ApiIdle
    /\ Fresh

\* iter with any options on any resource whose links carry any query string.
\* The query string of a url no page links to never matters.
UrlInit ==
    /\ server \in Servers(MaxPages)
    /\ status = AllSuccess
    /\ query \in [Urls -> LinkQueries]
    /\ \A p \in Urls :
          (\A r \in Urls : server[r].next_href # Some(p)) => query[p] = <<>>
    /\ options \in PageOptionsValues
    /\ arg = None
    /\ take = None
    /\ other = None
    /\ token = None
    /\ ApiIdle
    /\ Fresh

\* The resources and page caps of two streams that are polled in turn.
PairServers ==
    {s \in Servers(MaxPages) :
        \A p \in Urls :
            /\ Len(s[p].collection) <= MaxPairLen
            /\ p > MaxPairPages => s[p] = UnusedPage
            /\ s[p].next_href # None => s[p].next_href[1] <= MaxPairPages}
PairArgs == {None} \cup {Some(n) : n \in 1..MaxPairCap}

\* The stream get_stream returns for resource s and cap a, as a value.
FreshStream(s, a) ==
    [server |-> s, status |-> AllSuccess, query |-> PlainLinks,
     options |-> DefaultOptions, arg |-> a, take |-> None, token |-> None,
     pc |-> "start", link |-> None, items |-> <<>>, count |-> 0,
     pending |-> None, output |-> <<>>, fetched |-> <<>>, sent |-> <<>>,
     headers |-> <<>>,
     resolved |-> <<>>, demands |-> 0]

\* Two calls of iter or get, on one adapter or on two: two streams, none
\* polled yet.
PairInit ==
    /\ server \in PairServers
    /\ status = AllSuccess
    /\ query = PlainLinks
    /\ options = DefaultOptions
    /\ arg \in PairArgs
    /\ take = None
    /\ other \in {Some(FreshStream(s, a)) : s \in PairServers, a \in PairArgs}
    /\ token = None
    /\ ApiIdle
    /\ Fresh

\* iter(options) and get(options, 0) called on one adapter: two streams over
\* the same resource, none polled yet.
CapZeroInit ==
    /\ server \in Servers(MaxPages)
    /\ status = AllSuccess
    /\ query = PlainLinks
    /\ options = DefaultOptions
    /\ arg = None
    /\ take = None
    /\ other = Some(FreshStream(server, Some(0)))
    /\ token = None
    /\ ApiIdle
    /\ Fresh

\* Tokens given to authenticate_with_token.
Tokens == {"t1", "t2"}

\* An adapter created from a client with or without a token (the adapter
\* holds a clone of it), and iter called on the adapter.
AuthInit ==
    /\ server \in Servers(MaxPages)
    /\ status = AllSuccess
    /\ query = PlainLinks
    /\ options = DefaultOptions
    /\ arg = None
    /\ take = None
    /\ other = None
    /\ owner_token \in {None} \cup {Some(t) : t \in Tokens}
    /\ token = owner_token
    /\ calls = <<DEFAULT_PAGE_SIZE>>
    /\ track_request = NoFilters
    /\ result = None
    /\ Fresh

\* PageOptions::builder(), and an adapter on any resource to call iter on
\* with the options built.
BuilderInit ==
    /\ server \in Servers(MaxPages)
    /\ status = AllSuccess
    /\ query = PlainLinks
    /\ options = <<>>
    /\ arg = None
    /\ take = None
    /\ other = None
    /\ token = None
    /\ owner_token = None
    /\ calls = <<>>
    /\ track_request = NoFilters
    /\ result = None
    /\ Fresh

\* iter on any resource, read through take(k).
TakeInit ==
    /\ server \in Servers(MaxPages)
    /\ status = AllSuccess
    /\ query = PlainLinks
    /\ options = DefaultOptions
    /\ arg = None
    /\ take \in {Some(k) : k \in 0..MaxTake}
    /\ other = None
    /\ token = None
    /\ ApiIdle
    /\ Fresh

\* ------------------------------------------------- the try_unfold closure
\* The closure of stream::try_unfold applied to the cursor (lnk, its, cnt),
\* run up to its first suspension point.  These formulas leave `resolved` to
\* the step that runs them.

\* Mutant of PopItem: when the item popped was the last of the buffer, the
\* request for the next page is sent at once, ahead of any demand.
PopItem_Prefetches(lnk, its, cnt) ==
    /\ its # <<>>
    /\ output' = Append(output, Ok(Last(its)))
    /\ items' = Front(its)
    /\ link' = lnk
    /\ IF Front(its) = <<>> /\ lnk \notin {None, Some(BadUrl)} /\ cnt < num_pages
       THEN /\ count' = cnt + 1
            /\ pending' = Some(lnk[1])
            /\ fetched' = Append(fetched, lnk[1])
            /\ sent' = Append(sent, get_pages_url(query[lnk[1]]))
            /\ headers' = Append(headers, auth_header(token))
            /\ pc' = "await_next"
       ELSE /\ count' = cnt
            /\ pc' = "ready"
            /\ pending' = None
            /\ UNCHANGED <<fetched, sent, headers>>

\* items.pop() is Some(item): yield it and keep the rest.
PopItem(lnk, its, cnt) ==
    /\ its # <<>>
    /\ output' = Append(output, Ok(Last(its)))
    /\ items' = Front(its)
    /\ link' = lnk
    /\ count' = cnt
    /\ pc' = "ready"
    /\ pending' = None
    /\ UNCHANGED <<fetched, sent, headers>>

\* Mutant of CapIsReached: the cap is noticed one page late.
CapIsReached_OffByOne(cnt) == cnt = num_pages + 1
\* The cap test of the closure: count == num_pages.
CapIsReached(cnt) == cnt = num_pages

\* The buffer is empty and count == num_pages: Ok(None), the stream ends.
CapReached(lnk, its, cnt) ==
    /\ its = <<>>
    /\ CapIsReached(cnt)
    /\ pc' = "done"
    /\ link' = lnk
    /\ items' = its
    /\ count' = cnt
    /\ pending' = None
    /\ UNCHANGED <<output, fetched, sent, headers>>

\* Mutant of NoLink: a missing link is reported as an error.
NoLink_IsError(lnk, its, cnt) ==
    /\ its = <<>>
    /\ ~CapIsReached(cnt)
    /\ lnk = None
    /\ pc' = "errored"
    /\ output' = Append(output, Err("NoLink"))
    /\ link' = lnk
    /\ items' = its
    /\ count' = cnt
    /\ pending' = None
    /\ UNCHANGED <<fetched, sent, headers>>

\* The buffer is empty, the cap is not reached and link is None: Ok(None).
NoLink(lnk, its, cnt) ==
    /\ its = <<>>
    /\ ~CapIsReached(cnt)
    /\ lnk = None
    /\ pc' = "done"
    /\ link' = lnk
    /\ items' = its
    /\ count' = cnt
    /\ pending' = None
    /\ UNCHANGED <<output, fetched, sent, headers>>

\* count += 1 on a u64: below u64::MAX it adds one.
CountUp(cnt) == cnt + 1

\* The buffer is empty, the cap is not reached and link is Some(url):
\* count += 1, then get_pages_url(&url) sends the request and awaits it.
FollowLink(lnk, its, cnt) ==
    /\ its = <<>>
    /\ ~CapIsReached(cnt)
    /\ lnk # None
    /\ cnt < U64Max
    /\ lnk[1] # BadUrl
    /\ count' = CountUp(cnt)
    /\ pending' = Some(lnk[1])
    /\ fetched' = Append(fetched, lnk[1])
    /\ sent' = Append(sent, get_pages_url(query[lnk[1]]))
    /\ headers' = Append(headers, auth_header(token))
    /\ pc' = "await_next"
    /\ link' = lnk
    /\ items' = its
    /\ UNCHANGED output

\* count += 1 at u64::MAX: a build with overflow checks panics.
CountOverflowPanics(lnk, its, cnt) ==
    /\ its = <<>>
    /\ ~CapIsReached(cnt)
    /\ lnk # None
    /\ cnt = U64Max
    /\ pc' = "panicked"
    /\ link' = lnk
    /\ items' = its
    /\ count' = cnt
    /\ pending' = None
    /\ UNCHANGED <<output, fetched, sent, headers>>

\* count += 1 at u64::MAX: a build without overflow checks wraps to 0 and
\* goes on to get_pages_url(&url).
CountOverflowWraps(lnk, its, cnt) ==
    /\ its = <<>>
    /\ ~CapIsReached(cnt)
    /\ lnk # None
    /\ cnt = U64Max
    /\ lnk[1] # BadUrl
    /\ count' = 0
    /\ pending' = Some(lnk[1])
    /\ fetched' = Append(fetched, lnk[1])
    /\ sent' = Append(sent, get_pages_url(query[lnk[1]]))
    /\ headers' = Append(headers, auth_header(token))
    /\ pc' = "await_next"
    /\ link' = lnk
    /\ items' = its
    /\ UNCHANGED output

\* get_page: Url::parse(path).unwrap() on a link that does not parse.
MalformedLinkPanics(lnk, its, cnt) ==
    /\ its = <<>>
    /\ ~CapIsReached(cnt)
    /\ lnk = Some(BadUrl)
    /\ pc' = "panicked"
    /\ link' = lnk
    /\ items' = its
    /\ count' = IF cnt < U64Max THEN CountUp(cnt) ELSE 0
    /\ pending' = None
    /\ UNCHANGED <<output, fetched, sent, headers>>

TryUnfold(lnk, its, cnt) ==
    \/ PopItem(lnk, its, cnt)
    \/ CapReached(lnk, its, cnt)
    \/ NoLink(lnk, its, cnt)
    \/ FollowLink(lnk, its, cnt)
    \/ CountOverflowPanics(lnk, its, cnt)
    \/ CountOverflowWraps(lnk, its, cnt)
    \/ MalformedLinkPanics(lnk, its, cnt)

\* ------------------------------------------------------------ the consumer
\* The consumer asks the stream for an element when it reads it directly
\* (try_collect, try_next) or when take(k) has handed on fewer than k.
TakeAllows == IF take = None THEN TRUE ELSE Len(output) < take[1]

\* Mutant of FirstPoll: the first request is sent when the stream is built,
\* before the consumer asks for anything.
FirstPoll_Eager ==
    /\ pc = "start"
    /\ pc' = "await_first"
    /\ pending' = Some(1)
    /\ fetched' = Append(fetched, 1)
    /\ sent' = Append(sent, get_pages(fetch(options)))
    /\ headers' = Append(headers, auth_header(token))
    /\ UNCHANGED <<env, other, link, items, count, output, resolved, demands>>

\* The first poll of the stream polls `first`: the request for url 1 is sent.
FirstPoll ==
    /\ pc = "start"
    /\ TakeAllows
    /\ demands' = demands + 1
    /\ pc' = "await_first"
    /\ pending' = Some(1)
    /\ fetched' = Append(fetched, 1)
    /\ sent' = Append(sent, get_pages(fetch(options)))
    /\ headers' = Append(headers, auth_header(token))
    /\ UNCHANGED <<env, other, link, items, count, output, resolved>>

\* A poll of the stream while the cursor is held by try_unfold.
PollCursor ==
    /\ pc = "ready"
    /\ TakeAllows
    /\ demands' = demands + 1
    /\ TryUnfold(link, items, count)
    /\ UNCHANGED <<env, other, resolved>>

\* A poll after the stream produced an error: the stream ends.
PollAfterError ==
    /\ pc = "errored"
    /\ TakeAllows
    /\ demands' = demands + 1
    /\ pc' = "done"
    /\ UNCHANGED <<env, other, link, items, count, pending, output, fetched, sent, headers, resolved>>

Demand == FirstPoll \/ PollCursor \/ PollAfterError

\* Mutant of PollAfterEnd: a poll of the ended stream runs the closure on the
\* cursor again and follows the link it still holds.
PollAfterEnd_Resumes ==
    /\ pc = "done"
    /\ TakeAllows
    /\ demands < Len(output) + 1 + MaxEndPolls
    /\ demands' = demands + 1
    /\ IF link \notin {None, Some(BadUrl)}
       THEN /\ pc' = "await_next"
            /\ pending' = Some(link[1])
            /\ fetched' = Append(fetched, link[1])
            /\ sent' = Append(sent, get_pages_url(query[link[1]]))
            /\ headers' = Append(headers, auth_header(token))
       ELSE UNCHANGED <<pc, pending, fetched, sent, headers>>
    /\ UNCHANGED <<env, other, link, items, count, output, resolved>>

\* A poll of the stream after it returned None: try_unfold holds neither a
\* cursor nor a future and try_flatten_stream is empty, so the poll returns
\* None again.
PollAfterEnd ==
    /\ pc = "done"
    /\ TakeAllows
    /\ demands < Len(output) + 1 + MaxEndPolls
    /\ demands' = demands + 1
    /\ UNCHANGED <<env, other, pc, link, items, count, pending, output, fetched, sent, headers, resolved>>

\* Mutant of Drop: dropping the stream sends the request for the link the
\* cursor holds, as a stream that fetches ahead in the background would.
Drop_LetsRequestEscape ==
    /\ pc \in {"start", "await_first", "ready", "await_next", "errored"}
    /\ pc' = "dropped"
    /\ pending' = None
    /\ IF link \notin {None, Some(BadUrl)}
       THEN /\ fetched' = Append(fetched, link[1])
            /\ sent' = Append(sent, get_pages_url(query[link[1]]))
            /\ headers' = Append(headers, auth_header(token))
       ELSE UNCHANGED <<fetched, sent, headers>>
    /\ UNCHANGED <<env, other, link, items, count, output, resolved, demands>>

\* The consumer drops the stream before it ended: the boxed stream is
\* destroyed with its cursor and with the request future it may hold.
Drop ==
    /\ pc \in {"start", "await_first", "ready", "await_next", "errored"}
    /\ pc' = "dropped"
    /\ pending' = None
    /\ UNCHANGED <<env, other, link, items, count, output, fetched, sent, headers, resolved, demands>>

\* ----------------------------------------------------- request completion
\* get_page sends the request and decodes the body of whatever response
\* comes back with response.json(): the request resolves to Ok(page) when the
\* body decodes, and to Err when the transport or the decoding fails.  The
\* status of the response is not read.
\* Mutant of FirstPageOk: an empty first page ends the stream at once, as an
\* empty follow-on page does.
FirstPageOk_EndsOnEmptyPage ==
    /\ pc = "await_first"
    /\ resolved' = Append(resolved, "ok")
    /\ LET page == server[pending[1]]
       IN IF page.collection = <<>>
          THEN /\ pc' = "done"
               /\ link' = page.next_href
               /\ items' = <<>>
               /\ count' = 1
               /\ pending' = None
               /\ UNCHANGED <<output, fetched, sent, headers>>
          ELSE TryUnfold(page.next_href, Reverse(page.collection), 1)
    /\ UNCHANGED <<env, other>>
    /\ UNCHANGED demands

\* The first request resolves to Ok(page): the map_ok closure builds the
\* cursor (count = 1, reversed collection, next_href) and try_flatten_stream
\* polls the new stream at once.
FirstPageOk ==
    /\ pc = "await_first"
    /\ resolved' = Append(resolved, "ok")
    /\ LET page == server[pending[1]]
       IN TryUnfold(page.next_href, Reverse(page.collection), 1)
    /\ UNCHANGED <<env, other>>
    /\ UNCHANGED demands

\* Mutant of FirstPageErr: the failed first request is sent again.
FirstPageErr_Retries ==
    /\ pc = "await_first"
    /\ resolved' = Append(resolved, "err")
    /\ fetched' = Append(fetched, pending[1])
    /\ sent' = Append(sent, sent[Len(sent)])
    /\ headers' = Append(headers, auth_header(token))
    /\ UNCHANGED <<env, other, pc, link, items, count, pending, output, demands>>

\* Mutant of FirstPageErr: the error is swallowed and the stream just ends.
FirstPageErr_Swallowed ==
    /\ pc = "await_first"
    /\ resolved' = Append(resolved, "err")
    /\ pc' = "done"
    /\ pending' = None
    /\ UNCHANGED <<env, other, link, items, count, output, fetched, sent, headers>>
    /\ UNCHANGED demands

\* The first request resolves to Err: try_flatten_stream produces the error.
FirstPageErr ==
    /\ pc = "await_first"
    /\ resolved' = Append(resolved, "err")
    /\ output' = Append(output, Err(FetchError))
    /\ pc' = "errored"
    /\ pending' = None
    /\ UNCHANGED <<env, other, link, items, count, fetched, sent, headers>>
    /\ UNCHANGED demands

\* Mutant of NextPageOk: an empty follow-on page does not end the stream, the
\* cursor is kept and the next poll follows the page's link.
NextPageOk_SkipsEmptyPage ==
    /\ pc = "await_next"
    /\ resolved' = Append(resolved, "ok")
    /\ LET page == server[pending[1]]
           its == Reverse(page.collection)
       IN /\ link' = page.next_href
          /\ IF its # <<>>
             THEN /\ output' = Append(output, Ok(Last(its)))
                  /\ items' = Front(its)
                  /\ pc' = "ready"
             ELSE /\ output' = output
                  /\ items' = its
                  /\ pc' = "ready"
    /\ pending' = None
    /\ UNCHANGED <<env, other, count, fetched, sent, headers>>
    /\ UNCHANGED demands

\* Mutant of NextPageOk: a page without next_href ends the stream before its
\* items are yielded.
NextPageOk_DropsLastPage ==
    /\ pc = "await_next"
    /\ resolved' = Append(resolved, "ok")
    /\ LET page == server[pending[1]]
           its == Reverse(page.collection)
       IN /\ link' = page.next_href
          /\ IF its # <<>> /\ page.next_href # None
             THEN /\ output' = Append(output, Ok(Last(its)))
                  /\ items' = Front(its)
                  /\ pc' = "ready"
             ELSE /\ output' = output
                  /\ items' = its
                  /\ pc' = "done"
    /\ pending' = None
    /\ UNCHANGED <<env, other, count, fetched, sent, headers>>
    /\ UNCHANGED demands

\* A follow-on request resolves to Ok(page): take its link and reversed
\* collection, yield the first item, or end the stream when there is none.
NextPageOk ==
    /\ pc = "await_next"
    /\ resolved' = Append(resolved, "ok")
    /\ LET page == server[pending[1]]
           its == Reverse(page.collection)
       IN /\ link' = page.next_href
          /\ IF its # <<>>
             THEN /\ output' = Append(output, Ok(Last(its)))
                  /\ items' = Front(its)
                  /\ pc' = "ready"
             ELSE /\ output' = output
                  /\ items' = its
                  /\ pc' = "done"
    /\ pending' = None
    /\ UNCHANGED <<env, other, count, fetched, sent, headers>>
    /\ UNCHANGED demands

\* Mutant of NextPageErr: the error is produced but the cursor is kept, so
\* the next poll follows the link again.
NextPageErr_KeepsCursor ==
    /\ pc = "await_next"
    /\ resolved' = Append(resolved, "err")
    /\ output' = Append(output, Err(FetchError))
    /\ pc' = "ready"
    /\ pending' = None
    /\ UNCHANGED <<env, other, link, items, count, fetched, sent, headers>>
    /\ UNCHANGED demands

\* A follow-on request resolves to Err: `?` returns it from the closure,
\* try_unfold produces it and drops the cursor.
NextPageErr ==
    /\ pc = "await_next"
    /\ resolved' = Append(resolved, "err")
    /\ output' = Append(output, Err(FetchError))
    /\ pc' = "errored"
    /\ pending' = None
    /\ UNCHANGED <<env, other, link, items, count, fetched, sent, headers>>
    /\ UNCHANGED demands

Resolve == FirstPageOk \/ FirstPageErr \/ NextPageOk \/ NextPageErr

Next == Demand \/ Resolve

\* ------------------------------------------------------------ two streams
\* The stream being polled, as a value: everything get_stream and unfold
\* moved into it, and its history.
Running ==
    [server |-> server, status |-> status, query |-> query,
     options |-> options, arg |-> arg, take |-> take, token |-> token,
     pc |-> pc, link |-> link, items |-> items, count |-> count,
     pending |-> pending, output |-> output, fetched |-> fetched,
     sent |-> sent, headers |-> headers, resolved |-> resolved,
     demands |-> demands]

\* Mutant of Switch: the two streams count their pages in one counter.
Switch_SharesCount ==
    /\ other # None
    /\ other' = Some(Running)
    /\ server' = other[1].server
    /\ status' = other[1].status
    /\ query' = other[1].query
    /\ options' = other[1].options
    /\ arg' = other[1].arg
    /\ take' = other[1].take
    /\ pc' = other[1].pc
    /\ link' = other[1].link
    /\ items' = other[1].items
    /\ count' = count
    /\ pending' = other[1].pending
    /\ output' = other[1].output
    /\ fetched' = other[1].fetched
    /\ sent' = other[1].sent
    /\ headers' = other[1].headers
    /\ token' = other[1].token
    /\ UNCHANGED api
    /\ resolved' = other[1].resolved
    /\ demands' = other[1].demands

\* Mutant of Switch: the two streams pop their items from one buffer.
Switch_SharesBuffer ==
    /\ other # None
    /\ other' = Some(Running)
    /\ server' = other[1].server
    /\ status' = other[1].status
    /\ query' = other[1].query
    /\ options' = other[1].options
    /\ arg' = other[1].arg
    /\ take' = other[1].take
    /\ pc' = other[1].pc
    /\ link' = other[1].link
    /\ items' = items
    /\ count' = other[1].count
    /\ pending' = other[1].pending
    /\ output' = other[1].output
    /\ fetched' = other[1].fetched
    /\ sent' = other[1].sent
    /\ headers' = other[1].headers
    /\ token' = other[1].token
    /\ UNCHANGED api
    /\ resolved' = other[1].resolved
    /\ demands' = other[1].demands

\* The executor turns from one stream to the other: each stream owns its
\* client, cursor and requests, so the two just change places.
Switch ==
    /\ other # None
    /\ other' = Some(Running)
    /\ server' = other[1].server
    /\ status' = other[1].status
    /\ query' = other[1].query
    /\ options' = other[1].options
    /\ arg' = other[1].arg
    /\ take' = other[1].take
    /\ pc' = other[1].pc
    /\ link' = other[1].link
    /\ items' = other[1].items
    /\ count' = other[1].count
    /\ pending' = other[1].pending
    /\ output' = other[1].output
    /\ fetched' = other[1].fetched
    /\ sent' = other[1].sent
    /\ headers' = other[1].headers
    /\ token' = other[1].token
    /\ UNCHANGED api
    /\ resolved' = other[1].resolved
    /\ demands' = other[1].demands

PairNext == Next \/ Switch

\* Client::authenticate_with_token on the client the adapter was created
\* from: self.auth_token = Some(token).
Authenticate ==
    /\ \E t \in Tokens : owner_token' = Some(t)
    /\ UNCHANGED <<resource, options, arg, take, token, calls, track_request, result>>
    /\ UNCHANGED <<other, traversal>>

\* The original client is authenticated at any time while the adapter's
\* stream is read.
AuthNext == Next \/ Authenticate

\* builder.page_size(n), before the options are built and handed to iter.
PageSize ==
    /\ pc = "start"
    /\ Len(calls) < MaxCalls
    /\ \E n \in PageSizeArgs :
          /\ options' \in page_size(options, n)
          /\ calls' = Append(calls, n)
    /\ UNCHANGED <<resource, arg, take, token, owner_token, track_request, result>>
    /\ UNCHANGED <<other, traversal>>

\* The options are built by any calls of page_size, then iter is read.
BuilderNext == Next \/ PageSize

\* A consumer that keeps polling the stream after its end.
FusedNext == Next \/ PollAfterEnd

\* A consumer that may drop the stream at any point.
DropNext == Next \/ Drop

Spec == Init /\ [][Next]_vars

\* The same stream read through take(k).
TakeSpec == TakeInit /\ [][Next]_vars

\* The same stream over responses of any status.
HttpSpec == HttpInit /\ [][Next]_vars

\* The same stream with the query strings of its requests observed.
UrlSpec == UrlInit /\ [][Next]_vars

\* Two streams polled in any interleaving.
PairSpec == PairInit /\ [][PairNext]_vars

\* iter(options) next to get(options, 0), polled in any interleaving.
CapZeroSpec == CapZeroInit /\ [][PairNext]_vars

\* The stream polled beyond its end.
FusedSpec == Init /\ [][FusedNext]_vars

\* The stream dropped at any point.
DropSpec == Init /\ [][DropNext]_vars

\* The stream of an adapter whose original client is authenticated later.
AuthSpec == AuthInit /\ [][AuthNext]_vars

\* iter with options built by any sequence of page_size calls.
BuilderSpec == BuilderInit /\ [][BuilderNext]_vars

\* Every request sent resolves and the consumer keeps polling.
FairSpec == Spec /\ WF_vars(Demand) /\ WF_vars(Resolve)

\* ===================================================== what the claims use
Min(a, b) == IF a < b THEN a ELSE b

\* The items the stream yielded successfully, in order.
OkItems(out) ==
    LET oks == SelectSeq(out, LAMBDA r : r.ok # None)
    IN [i \in 1..Len(oks) |-> oks[i].ok[1]]
HasError(out) == \E i \in 1..Len(out) : out[i].err # None
NoFetchFailed == \A i \in 1..Len(resolved) : resolved[i] = "ok"

\* The collections of the pages at the urls us, concatenated in order.
RECURSIVE ConcatPages(_)
ConcatPages(us) ==
    IF us = <<>> THEN <<>> ELSE server[Head(us)].collection \o ConcatPages(Tail(us))

\* The urls a walk from url p visits by following next_href, fuel pages at most.
RECURSIVE Walk(_, _)
Walk(p, fuel) ==
    IF fuel = 0 THEN <<>>
    ELSE LET h == server[p].next_href
         IN IF h = None \/ h = Some(BadUrl) THEN <<p>> ELSE <<p>> \o Walk(h[1], fuel - 1)

\* The page chain of the resource, and whether it is finite: the walk from
\* url 1 ends at a page whose next_href is null.
Chain == Walk(1, MaxPages + 1)
FiniteChain == Len(Chain) <= MaxPages /\ server[Chain[Len(Chain)]].next_href = None
\* Every link of the resource parses as a URL.
ValidLinks == \A p \in Urls : server[p].next_href # Some(BadUrl)

\* The chain up to and including its first page that has a null next_href or
\* is a follow-on page (position k >= 2) with an empty collection.
RECURSIVE WalkToStop(_, _, _)
WalkToStop(p, k, fuel) ==
    IF fuel = 0 THEN <<>>
    ELSE LET pg == server[p]
         IN IF \/ pg.next_href = None
               \/ pg.next_href = Some(BadUrl)
               \/ (k >= 2 /\ pg.collection = <<>>)
            THEN <<p>>
            ELSE <<p>> \o WalkToStop(pg.next_href[1], k + 1, fuel - 1)
ChainToStop == WalkToStop(1, 1, MaxPages + 1)

\* ------------------------------------------------------------------- C1
\* C1 as stated: a finished unbounded traversal (iter) over a finite chain
\* with no failed fetch has yielded as many items as the collections of all
\* pages of the chain up to the first null next_href hold together, empty
\* pages anywhere in the chain included.
C1_YieldsSumOfWholeChain ==
    (arg = None /\ FiniteChain /\ NoFetchFailed /\ pc = "done")
        => Len(OkItems(output)) = Len(ConcatPages(Chain))

\* C1 amended: the sum runs over the pages of the chain up to and including
\* the first page that has a null next_href or is a follow-on page with an
\* empty collection.
C1_YieldsSumUntilStop ==
    (arg = None /\ FiniteChain /\ NoFetchFailed /\ pc = "done")
        => Len(OkItems(output)) = Len(ConcatPages(ChainToStop))

\* An unbounded traversal finished a three-page chain whose first page is
\* empty and yielded the items of the two pages after it.
C1_Witness ==
    /\ arg = None /\ FiniteChain /\ NoFetchFailed /\ pc = "done"
    /\ Len(Chain) = 3
    /\ server[1].collection = <<>>
    /\ Len(OkItems(output)) >= 3

\* ------------------------------------------------------------------- C2
\* C2 as stated: with get(options, N) the number of page requests sent never
\* exceeds N, for every N, N = 0 included.
C2_FetchesAtMostCap ==
    arg # None => Len(fetched) <= arg[1]

\* ------------------------------------------------------------------- C3
\* C3 as stated: a fully consumed get(options, N) over a chain of L pages
\* with no failed fetch yields exactly the collections of the first
\* min(N, L) pages of the chain, concatenated in order.
C3_YieldsFirstMinPages ==
    (arg # None /\ FiniteChain /\ NoFetchFailed /\ pc = "done")
        => /\ ~HasError(output)
           /\ OkItems(output) =
                ConcatPages(SubSeq(Chain, 1, Min(arg[1], Len(Chain))))

\* ------------------------------------------------------------------- C4
\* C4: at every point of every traversal the items yielded so far are a
\* prefix of the collections of the pages fetched so far, concatenated in
\* fetch order with each collection in API order.
FetchedOk ==
    LET idx == SelectSeq([i \in 1..Len(resolved) |-> i], LAMBDA i : resolved[i] = "ok")
    IN [j \in 1..Len(idx) |-> fetched[idx[j]]]
IsPrefix(a, b) == Len(a) <= Len(b) /\ a = SubSeq(b, 1, Len(a))
C4_YieldedIsPrefixOfFetched ==
    IsPrefix(OkItems(output), ConcatPages(FetchedOk))

\* Items of two pages were yielded, two of them from one page.
C4_Witness ==
    /\ Len(fetched) >= 2
    /\ Len(OkItems(output)) >= 3
    /\ \E i \in 1..Len(output) - 1 :
         /\ output[i].ok # None /\ output[i + 1].ok # None
         /\ output[i].ok[1][1] = output[i + 1].ok[1][1]

\* ------------------------------------------------------------------- C5
\* C5: when the first request fails, the stream produces that error as its
\* only element and the next poll ends it: nothing is yielded and no
\* further request is sent.
FirstFetchFailed == Len(resolved) >= 1 /\ resolved[1] = "err"
C5_FirstFailureIsOnlyElement ==
    /\ [](FirstFetchFailed =>
            /\ output = <<Err(FetchError)>>
            /\ fetched = <<1>>
            /\ pc \in {"errored", "done"})
    /\ [][(FirstFetchFailed /\ pc = "errored") => pc' = "done"]_vars

\* The first request failed and the stream has ended.
C5_Witness == FirstFetchFailed /\ pc = "done"

\* ------------------------------------------------------------------- C6
\* C6: when the request for follow-on page k (k >= 2) fails, the stream has
\* produced all items of pages 1..k-1 in order, then that error, and the
\* next poll ends it; request k is the last one sent.
FetchFailedAt(k) == k \in 2..Len(resolved) /\ resolved[k] = "err"
C6_FollowOnFailureIsLastElement ==
    /\ [](\A k \in 2..Len(resolved) : FetchFailedAt(k) =>
            /\ k = Len(fetched)
            /\ pc \in {"errored", "done"}
            /\ OkItems(output) = ConcatPages(SubSeq(fetched, 1, k - 1))
            /\ output = [i \in 1..Len(OkItems(output)) |-> Ok(OkItems(output)[i])]
                          \o <<Err(FetchError)>>)
    /\ [][((\E k \in 2..Len(resolved) : FetchFailedAt(k)) /\ pc = "errored")
            => pc' = "done"]_vars

\* The third request failed after items of the first two pages were
\* yielded, and the stream has ended.
C6_Witness ==
    /\ FetchFailedAt(3)
    /\ Len(output) >= 3
    /\ pc = "done"

\* ------------------------------------------------------------------- C7
\* C7 as stated: when every request sent resolves and the consumer keeps
\* polling, the traversal ends whenever the chain is finite or the call is
\* get(options, N), N = 0 and cyclic chains of non-empty pages included.
C7_TraversalEnds ==
    (ValidLinks /\ (FiniteChain \/ arg # None)) => <>(pc = "done")

\* ------------------------------------------------------------------- C8
\* C8: when the first page has an empty collection and a null next_href the
\* stream ends with no element at all, after exactly one request.
FirstPageIsEmptyAndLast ==
    /\ server[1] = [collection |-> <<>>, next_href |-> None]
    /\ Len(resolved) >= 1
    /\ resolved[1] = "ok"
C8_EmptyFirstPageEndsEmpty ==
    FirstPageIsEmptyAndLast => (pc = "done" /\ output = <<>> /\ fetched = <<1>>)

\* An unbounded traversal received such a first page.
C8_Witness == FirstPageIsEmptyAndLast /\ arg = None /\ pc = "done"

\* ------------------------------------------------------------------- C9
\* C9: when the link of a non-empty page led to a page with an empty
\* collection, the stream has ended without an error right after the items
\* of the pages before it; that request is the last one sent and the only
\* follow-on request for the empty page, whatever next_href it carries.
EmptyFollowOn(k) ==
    /\ k \in 2..Len(resolved)
    /\ resolved[k] = "ok"
    /\ server[fetched[k]].collection = <<>>
    /\ server[fetched[k - 1]].collection # <<>>
C9_EmptyFollowOnPageEnds ==
    \A k \in 2..Len(resolved) : EmptyFollowOn(k) =>
        /\ k = Len(fetched)
        /\ pc = "done"
        /\ ~HasError(output)
        /\ OkItems(output) = ConcatPages(SubSeq(fetched, 1, k - 1))
        /\ Cardinality({j \in 2..Len(fetched) : fetched[j] = fetched[k]}) = 1

\* The empty page reached from a non-empty page carried a link to a page
\* with items.
C9_Witness ==
    \E k \in 2..Len(resolved) :
        /\ EmptyFollowOn(k)
        /\ server[fetched[k]].next_href \notin {None, Some(BadUrl)}
        /\ server[server[fetched[k]].next_href[1]].collection # <<>>
        /\ pc = "done"

\* ------------------------------------------------------------------ C10
\* C10: with get(options, N), N >= 1, once N requests were sent and the
\* buffer is empty, the next poll ends the stream without an error and
\* without a request for the link the cursor holds; no more than N requests
\* are ever sent, and get(options, 1) yields exactly the first page's items
\* from one request.
CapOf == arg[1]
C10_CapEndsStream ==
    /\ []((arg # None /\ CapOf >= 1) => Len(fetched) <= CapOf)
    /\ [][(/\ arg # None /\ CapOf >= 1
           /\ pc = "ready" /\ items = <<>>
           /\ Len(fetched) = CapOf)
          => (pc' = "done" /\ output' = output /\ fetched' = fetched)]_vars
    /\ []((arg = Some(1) /\ NoFetchFailed /\ pc = "done")
            => /\ fetched = <<1>>
               /\ ~HasError(output)
               /\ OkItems(output) = server[1].collection)

\* get(options, 2) ended at the cap after two non-empty pages, with a link
\* to a third page left in the cursor.
C10_Witness ==
    /\ arg = Some(2)
    /\ pc = "done"
    /\ NoFetchFailed
    /\ Len(fetched) = 2
    /\ link = Some(3)
    /\ Len(OkItems(output)) = 2 * MaxLen


\* ------------------------------------------------------------------ C11
\* C11 as stated: a finished unbounded traversal over a chain of k pages
\* (next_href null only on page k) with no failed fetch has sent exactly k
\* requests, one per page of the chain in chain order.
C11_FetchesWholeChain ==
    (arg = None /\ FiniteChain /\ NoFetchFailed /\ pc = "done")
        => fetched = Chain

\* C11 amended: the requests are one per page of the chain, in chain order,
\* up to and including the first page that has a null next_href or is a
\* follow-on page with an empty collection.
C11_FetchesChainUntilStop ==
    (arg = None /\ FiniteChain /\ NoFetchFailed /\ pc = "done")
        => fetched = ChainToStop

\* An unbounded traversal finished a chain of a full page and a shorter last
\* page: two requests, all items of both pages yielded.
C11_Witness ==
    /\ arg = None /\ FiniteChain /\ NoFetchFailed /\ pc = "done"
    /\ Chain = <<1, 2>>
    /\ Len(server[1].collection) = MaxLen
    /\ Len(server[2].collection) = 1
    /\ fetched = <<1, 2>>
    /\ Len(OkItems(output)) = MaxLen + 1


\* ------------------------------------------------------------------ C12
\* The pages a consumer of up to MaxTake items can reach, without and with
\* the stop at an empty follow-on page.
LongWalk == Walk(1, MaxTake + 1)
LongWalkToStop == WalkToStop(1, 1, MaxTake + 1)
\* The smallest number of leading pages of w that hold k items together.
PagesFor(w, k) ==
    CHOOSE n \in 0..Len(w) :
        /\ Len(ConcatPages(SubSeq(w, 1, n))) >= k
        /\ \A m \in 0..(n - 1) : Len(ConcatPages(SubSeq(w, 1, m))) < k
\* The consumer will not poll the stream again.
ConsumerFinished ==
    \/ pc \in {"done", "panicked"}
    \/ (take # None /\ ~TakeAllows)

\* C12 as stated: take(k) on an unbounded traversal of a failure-free chain
\* that holds at least k items yields exactly the first k items of the
\* chain, and the requests sent are those for pages 1..p, p the smallest
\* number of pages holding k items; no page beyond p is ever requested.
C12_TakeYieldsFirstK ==
    (take # None /\ arg = None /\ NoFetchFailed
        /\ Len(ConcatPages(LongWalk)) >= take[1])
    => LET p == PagesFor(LongWalk, take[1])
       IN /\ IsPrefix(fetched, SubSeq(LongWalk, 1, p))
          /\ ConsumerFinished =>
                /\ ~HasError(output)
                /\ OkItems(output) = SubSeq(ConcatPages(LongWalk), 1, take[1])
                /\ fetched = SubSeq(LongWalk, 1, p)

\* C12 amended: the chain counts up to and including its first page that has
\* a null next_href or is a follow-on page with an empty collection.
C12_TakeYieldsFirstKUntilStop ==
    (take # None /\ arg = None /\ NoFetchFailed
        /\ Len(ConcatPages(LongWalkToStop)) >= take[1])
    => LET p == PagesFor(LongWalkToStop, take[1])
       IN /\ IsPrefix(fetched, SubSeq(LongWalkToStop, 1, p))
          /\ ConsumerFinished =>
                /\ ~HasError(output)
                /\ OkItems(output) = SubSeq(ConcatPages(LongWalkToStop), 1, take[1])
                /\ fetched = SubSeq(LongWalkToStop, 1, p)

\* take(MaxLen) was served from the first page alone although that page
\* links to a second page with items: the link was never followed.
C12_Witness ==
    /\ take = Some(MaxLen) /\ arg = None
    /\ Len(server[1].collection) = MaxLen
    /\ server[1].next_href = Some(2)
    /\ server[2].collection # <<>>
    /\ Len(output) = MaxLen
    /\ fetched = <<1>>
    /\ pc = "ready"

\* ------------------------------------------------------------------ C13
\* C13: a request is sent only by a step that leaves the buffer empty, with
\* every item of the pages requested before already yielded and with a
\* demand of the consumer still unanswered: nothing is fetched ahead.
C13_NeverPrefetches ==
    [][fetched' # fetched =>
          /\ fetched' = Append(fetched, fetched'[Len(fetched')])
          /\ items' = <<>>
          /\ resolved' = [i \in 1..Len(fetched) |-> "ok"]
          /\ OkItems(output') = ConcatPages(fetched)
          /\ output' = [i \in 1..Len(output') |-> Ok(OkItems(output')[i])]
          /\ demands' = Len(output') + 1]_vars

\* The request for page 2 is in flight after both items of page 1 were
\* yielded and a third element was asked for.
C13_Witness ==
    /\ pc = "await_next"
    /\ fetched = <<1, 2>>
    /\ Len(output) = MaxLen
    /\ demands = MaxLen + 1


\* ------------------------------------------------------------------ C16
\* C16: nothing is retried.  The requests of a traversal are one per page of
\* the walk from url 1, each sent after the one before it succeeded and none
\* sent twice; a failed request is the last request of the traversal.
SomeFetchFailed == \E k \in 1..Len(resolved) : resolved[k] = "err"
C16_NeverRetries ==
    /\ [](/\ Len(fetched) >= 1 => fetched = Walk(1, Len(fetched))
          /\ Len(resolved) \in {Len(fetched) - 1, Len(fetched)}
          /\ \A k \in 1..Len(resolved) : resolved[k] = "err" => k = Len(fetched))
    /\ [][SomeFetchFailed => fetched' = fetched]_vars

\* The second request failed, the stream delivered the error and ended, and
\* no third request was sent.
C16_Witness ==
    /\ resolved = <<"ok", "err">>
    /\ fetched = <<1, 2>>
    /\ pc = "done"

\* ------------------------------------------------------------------ C17
\* C17 as stated: a next_href that does not parse as a URL makes the page
\* fetch fail with an error value that the stream delivers; it never aborts
\* the program.
C17_MalformedLinkIsAnError ==
    link = Some(BadUrl) => pc # "panicked"


\* C18: a request answered with a non-2xx status resolves to an error, whatever
\* the body, and the stream yields no item of such a response.
C18_NonSuccessStatusIsAnError ==
    /\ \A k \in 1..Len(resolved) : status[fetched[k]] = "non2xx" => resolved[k] = "err"
    /\ \A i \in 1..Len(OkItems(output)) : status[OkItems(output)[i][1]] = "2xx"


\* The number of client_id pairs of a query string.
ClientIds(q) == Cardinality({i \in 1..Len(q) : q[i][1] = "client_id"})

\* The query string the k-th request was built from: the serialized options
\* for the first request, the next_href followed for the others.
Supplied(k) == IF k = 1 THEN query_pairs(fetch(options)) ELSE query[fetched[k]]

\* C19: every request sent carries a client_id, appended only when the
\* supplied url has none: the sent url has max(1, n) client_id pairs when the
\* supplied url has n.
C19_ClientIdOnceUnlessSupplied ==
    /\ Len(sent) = Len(fetched)
    /\ \A k \in 1..Len(sent) :
          ClientIds(sent[k]) =
              (IF ClientIds(Supplied(k)) > 1 THEN ClientIds(Supplied(k)) ELSE 1)

\* Three requests were sent: the first from the options, the second along a
\* link without client_id, the third along a link with two of them.
C19_Witness ==
    /\ Len(sent) = 3
    /\ options # <<>>
    /\ ClientIds(Supplied(2)) = 0
    /\ ClientIds(Supplied(3)) = 2
    /\ ClientIds(sent[3]) = 2

\* C20 as stated: the options go on the first request only, and every
\* follow-on request has exactly the query string of the next_href followed.
C20_FollowOnUrlIsLinkVerbatim ==
    /\ Len(sent) >= 1 => sent[1] = Append(options, ClientIdPair)
    /\ \A k \in 2..Len(sent) : sent[k] = query[fetched[k]]

\* C20 amended: the options go on the first request only, and every
\* follow-on request has the query string of the next_href followed, with the
\* client's client_id pair appended exactly when the next_href has none.
C20_FollowOnUrlIsLinkPlusClientId ==
    /\ Len(sent) >= 1 => sent[1] = Append(options, ClientIdPair)
    /\ \A k \in 2..Len(sent) :
          LET q == query[fetched[k]]
          IN IF \E i \in 1..Len(q) : q[i][1] = "client_id"
             THEN sent[k] = q
             ELSE sent[k] = Append(q, ClientIdPair)

\* Options were given, and the stream followed a link that carries a
\* client_id and a link that carries none.
C20_Witness ==
    /\ options # <<>>
    /\ Len(sent) = 3
    /\ ClientIds(query[fetched[2]]) = 1
    /\ ClientIds(query[fetched[3]]) = 0
    /\ pc = "done"


\* ------------------------------------------------------------ two streams
\* The second stream came from the same call on the same adapter over the
\* same backing resource.
SameAdapter ==
    /\ other # None
    /\ other[1].server = server
    /\ other[1].status = status
    /\ other[1].query = query
    /\ other[1].options = options
    /\ other[1].arg = arg

\* Stream t sent its own request for page 1 before it produced anything.
StartedFresh(t) ==
    /\ t.pc = "start" => t.fetched = <<>> /\ t.output = <<>>
    /\ t.pc # "start" => Len(t.fetched) >= 1 /\ t.fetched[1] = 1
    /\ t.output # <<>> => Len(t.resolved) >= 1

\* No request of stream t failed.
Undisturbed(t) == \A k \in 1..Len(t.resolved) : t.resolved[k] = "ok"

\* C14: two streams from the same call on an unchanged resource each begin
\* with their own request for page 1; what one has yielded is a prefix of
\* what the other has yielded however far either was read, and read to the
\* end they have yielded the same sequence from the same requests.
C14_SecondCallRepeatsFirst ==
    SameAdapter =>
        LET a == Running
            b == other[1]
        IN /\ StartedFresh(a)
           /\ StartedFresh(b)
           /\ (Undisturbed(a) /\ Undisturbed(b)) =>
                 \/ IsPrefix(OkItems(a.output), OkItems(b.output))
                 \/ IsPrefix(OkItems(b.output), OkItems(a.output))
           /\ (a.pc = "done" /\ b.pc = "done" /\ Undisturbed(a) /\ Undisturbed(b)) =>
                 a.output = b.output /\ a.fetched = b.fetched

\* Both streams of one adapter were read to the end over two pages: each
\* sent its two requests and yielded the same three items.
C14_Witness ==
    /\ SameAdapter
    /\ pc = "done"
    /\ other[1].pc = "done"
    /\ fetched = <<1, 2>>
    /\ other[1].fetched = <<1, 2>>
    /\ Len(OkItems(output)) = MaxPairLen + 1
    /\ output = other[1].output

\* The cursor of the stream being polled is what its own requests made it:
\* the link of its last page, the items of its pages not yet yielded, and the
\* number of its requests.
OwnCursor ==
    pc = "ready" =>
        /\ NoFetchFailed
        /\ Len(resolved) = Len(fetched)
        /\ fetched = Walk(1, Len(fetched))
        /\ link = server[fetched[Len(fetched)]].next_href
        /\ OkItems(output) \o Reverse(items) = ConcatPages(fetched)
        /\ count = Len(fetched) % (U64Max + 1)

\* A stream that ended without a failure yielded all items of the pages it
\* requested along its own chain, and ended for a reason of its own.
OwnEnd ==
    (pc = "done" /\ NoFetchFailed) =>
        /\ items = <<>>
        /\ fetched = Walk(1, Len(fetched))
        /\ OkItems(output) = ConcatPages(fetched)
        /\ \/ link = None
           \/ CapIsReached(count)
           \/ Len(fetched) >= 2 /\ server[fetched[Len(fetched)]].collection = <<>>

\* A step polls one stream and leaves the other as it is, or turns to the
\* other stream and leaves both as they are.
OtherUntouched ==
    other # None =>
        \/ other' = other
        \/ other' = Some(Running) /\ Running' = other[1]

\* C15: in every interleaving of two streams, each stream's buffer, link and
\* page count come from its own requests only, it yields and requests what
\* it does alone, and no step of one stream changes the other.
C15_StreamsDoNotInterfere ==
    /\ [](OwnCursor /\ OwnEnd)
    /\ [][OtherUntouched]_vars

\* Two streams over different resources or caps are both under way: one
\* holds a buffered item of its second page, the other waits for a page.
C15_Witness ==
    /\ other # None
    /\ ~SameAdapter
    /\ pc = "ready"
    /\ count = 2
    /\ items # <<>>
    /\ other[1].pc = "await_next"
    /\ other[1].output # <<>>


\* ------------------------------------------------------------------ C28
\* The first page is empty, carries a link that parses, and the cap is not 1.
EmptyFirstWithLink ==
    /\ server[1].collection = <<>>
    /\ server[1].next_href \notin {None, Some(BadUrl)}
    /\ arg # Some(1)

\* C28: an empty first page that carries a next_href (cap not 1) does not end
\* the stream: the link is followed at once and the items of the page behind
\* it are yielded; an empty follow-on page ends the stream at once, whatever
\* next_href it carries.
C28_EmptyPagesAreAsymmetric ==
    /\ (EmptyFirstWithLink /\ Len(resolved) >= 1 /\ resolved[1] = "ok") =>
          /\ Len(fetched) >= 2
          /\ fetched[2] = server[1].next_href[1]
          /\ Len(resolved) = 1 => pc = "await_next"
          /\ (Len(resolved) >= 2 /\ resolved[2] = "ok") =>
                LET second == server[fetched[2]].collection
                IN /\ second # <<>> => (output # <<>> /\ output[1] = Ok(second[1]))
                   /\ pc = "done" => IsPrefix(second, OkItems(output))
    /\ \A k \in 2..Len(resolved) :
          (resolved[k] = "ok" /\ server[fetched[k]].collection = <<>>) =>
              pc = "done" /\ Len(fetched) = k

\* An empty first page led to a page with items, and the empty page after
\* that one ended the stream although it carries a link.
C28_Witness ==
    /\ EmptyFirstWithLink
    /\ fetched = <<1, 2, 3>>
    /\ NoFetchFailed
    /\ Len(OkItems(output)) = MaxLen
    /\ server[3].collection = <<>>
    /\ server[3].next_href # None
    /\ pc = "done"


\* ------------------------------------------------------------------ C27
\* Stream t has stopped for good.
Stopped(t) == t.pc \in {"done", "panicked"}

\* C27 as stated: get(options, 0) behaves like iter(options) on every chain:
\* while no request fails, the requests and the items of one are a prefix of
\* those of the other, and when both have stopped they have stopped the same
\* way after the same requests and the same items.
C27_CapZeroBehavesLikeIter ==
    (other # None /\ Undisturbed(Running) /\ Undisturbed(other[1])) =>
        LET a == Running
            b == other[1]
        IN /\ IsPrefix(a.fetched, b.fetched) \/ IsPrefix(b.fetched, a.fetched)
           /\ IsPrefix(a.output, b.output) \/ IsPrefix(b.output, a.output)
           /\ (Stopped(a) /\ Stopped(b)) =>
                 /\ a.pc = b.pc
                 /\ a.output = b.output
                 /\ a.fetched = b.fetched


\* ------------------------------------------------------------------ C26
\* C26: dropping a stream sends no request, and once a stream is dropped it
\* stays dropped, holds no request in flight and no request is sent for it.
C26_NoFetchAfterDrop ==
    /\ [](pc = "dropped" => pending = None)
    /\ [][pc' = "dropped" => (fetched' = fetched /\ sent' = sent)]_vars
    /\ [][pc = "dropped" => pc' = "dropped"]_vars

\* The stream was dropped with items of its first page unread and a link to
\* a further page in its cursor.
C26_Witness ==
    /\ pc = "dropped"
    /\ fetched = <<1>>
    /\ resolved = <<"ok">>
    /\ items # <<>>
    /\ link = Some(2)

\* ------------------------------------------------------------------ C29
\* C29: once the stream has returned its end (after the last item, at the
\* cap, after an empty follow-on page or after an error), every later poll
\* returns the end again: no element is produced and no request is sent.
C29_EndedStreamStaysEnded ==
    [][pc = "done" =>
          /\ pc' = "done"
          /\ output' = output
          /\ fetched' = fetched
          /\ pending' = None
          /\ items' = items]_vars

\* The stream ended at its cap with a link left in the cursor and was
\* polled again as often as the bound allows.
C29_Witness ==
    /\ pc = "done"
    /\ arg # None
    /\ CapIsReached(count)
    /\ link = Some(2)
    /\ demands = Len(output) + 1 + MaxEndPolls


\* ------------------------------------------------------------------ C30
\* C30: whatever token the original client is given after the adapter was
\* created, the adapter's client keeps its token, and every request of the
\* adapter's stream, first and follow-on, carries the client's client_id and
\* the Authorization header of the adapter's own token (none without one).
C30_AdapterKeepsItsClient ==
    /\ [](/\ Len(headers) = Len(fetched)
          /\ \A k \in 1..Len(headers) :
                /\ token = None => headers[k] = None
                /\ token # None => headers[k] = Some(<<"OAuth", token[1]>>)
                /\ \E i \in 1..Len(sent[k]) : sent[k][i] = ClientIdPair)
    /\ [][token' = token]_vars

\* The adapter was created from a client with token t1, the original client
\* was then given token t2, and the stream sent its first and a follow-on
\* request.
C30_Witness ==
    /\ token = Some("t1")
    /\ owner_token = Some("t2")
    /\ Len(headers) = 2
    /\ headers[1] = headers[2]


\* ------------------------------------------------------------------ C21
\* The values the options hold under key k, in iteration order.
ValuesOf(o, k) ==
    LET hits == SelectSeq(o, LAMBDA kv : kv[1] = k)
    IN [i \in 1..Len(hits) |-> hits[i][2]]

\* C21: PageOptions::default() holds exactly page_size = 15 and
\* linked_partitioning = true; after any calls of page_size the options hold
\* two entries, one page_size with the decimal form of the last argument and
\* one linked_partitioning = true.
C21_PageSizeSetsTwoEntries ==
    /\ \A d \in page_size(<<>>, DEFAULT_PAGE_SIZE) :
          /\ Len(d) = 2
          /\ ValuesOf(d, "page_size") = <<<<"1", "5">>>>
          /\ ValuesOf(d, "linked_partitioning") = <<"true">>
    /\ DefaultOptions \in page_size(<<>>, DEFAULT_PAGE_SIZE)
    /\ calls # <<>> =>
          /\ Len(options) = 2
          /\ ValuesOf(options, "page_size") = <<to_string(calls[Len(calls)])>>
          /\ ValuesOf(options, "linked_partitioning") = <<"true">>

\* page_size was called with the default first and with another size after.
C21_Witness ==
    /\ Len(calls) = 2
    /\ calls[1] = DEFAULT_PAGE_SIZE
    /\ calls[2] = MaxPageSize
    /\ ValuesOf(options, "page_size") = <<to_string(MaxPageSize)>>

\* ------------------------------------------------------------------ C22
\* C22: serialize gives None exactly when page_size was never called; then
\* the url of the first request is the bare path, without '?', and otherwise
\* it is the path, '?' and the serialized options.  The request sent carries
\* the pairs of that url and the client_id.
C22_SerializeIsNoneIffEmpty ==
    /\ serialize(options) = None <=> calls = <<>>
    /\ calls = <<>> => fetch(options) = <<"path">>
    /\ calls # <<>> =>
          /\ options # <<>>
          /\ fetch(options) = <<"path", "?", options>>
    /\ Len(sent) >= 1 => sent[1] = Append(options, ClientIdPair)

\* iter was called with options nothing was set on, and the first request
\* went out with the client_id as its only parameter.
C22_Witness ==
    /\ calls = <<>>
    /\ Len(sent) >= 1
    /\ sent[1] = <<ClientIdPair>>


\* ---------------------------------------------------------------------
\* The one-shot calls of the API: the track search builder, Client::get,
\* Client::stream, Client::download and Client::resolve.
\* ---------------------------------------------------------------------

\* A call that unwinds (unwrap of None or of an Err, unimplemented!())
\* returns neither a value nor an error.
Panicked == [ok |-> None, err |-> None]

\* The error values.  A failed send, an error status and an unreadable body
\* are all reqwest errors; the others are named after what failed.
HttpError == <<"HttpError">>
UrlParseError == <<"UrlParseError">>
ToStrError == <<"ToStrError">>
IoError == <<"IoError">>
TrackNotStreamable == <<"TrackNotStreamable">>
TrackNotDownloadable == <<"TrackNotDownloadable">>
ApiError(msg) == <<"ApiError", msg>>

\* One GET as the server sees it.
Request(path, params) == [path |-> path, params |-> params]

\* The Location header of a response: none, a URL, text that is no URL,
\* or bytes that are not visible ASCII.
Locations == {"absent", "url", "not_url", "not_ascii"}

\* Filter::to_str.
Filters == {"All", "Public", "Private"}
to_str(f) ==
    IF f = "All" THEN "all" ELSE IF f = "Public" THEN "public" ELSE "private"

\* The arguments the setters are called with.
QueryArgs == {None, Some(<<"x">>)}
TagsArgs == {None, Some(<<<<"a">>, <<"b">>>>)}
GenresArgs == {None, Some(<<<<"g">>>>)}
FilterArgs == {None} \cup {Some(f) : f \in Filters}
LicenseArgs == {None, Some(<<"c", "c">>)}
IdsArgs == {None, Some(<<7, 12>>)}

\* TrackRequestBuilder::request_params: one pair per set filter, in the
\* order of the code.  duration, bpm and types have no setter and stay None.
request_params(b) ==
    (IF b.query # None THEN <<<<"q", b.query[1]>>>> ELSE <<>>)
    \o (IF b.tags # None THEN <<<<"tags", b.tags[1]>>>> ELSE <<>>)
    \o (IF b.filter # None THEN <<<<"filter", to_str(b.filter[1])>>>> ELSE <<>>)
    \o (IF b.ids # None
        THEN <<<<"ids", join([i \in 1..Len(b.ids[1]) |-> to_string(b.ids[1][i])])>>>>
        ELSE <<>>)
    \o (IF b.genres # None THEN <<<<"genres", b.genres[1]>>>> ELSE <<>>)

\* What the server does with the GET of Client::get.
GetNets == [send : {"ok", "err"}, status : {"2xx", "3xx", "4xx"},
            location : Locations]

\* Client::get: client_id first, then the caller's pairs; one GET, whose
\* redirect the http client does not follow (Client::new); an error status
\* is an error.
get(path, params, net) ==
    [requests |-> <<Request(path, <<ClientIdPair>> \o params)>>,
     ret |-> IF net.send = "err" \/ net.status = "4xx"
             THEN Err(HttpError) ELSE Ok(net)]

\* Client::resolve.
resolve_FollowsRedirect(url, net) ==
    LET r == get("/resolve", <<<<"url", url>>>>, net) IN
    IF r.ret.err # None THEN r
    ELSE IF net.location = "absent"
    THEN [r EXCEPT !.ret = Err(ApiError("expected location header"))]
    ELSE IF net.location = "not_ascii" THEN [r EXCEPT !.ret = Err(ToStrError)]
    ELSE IF net.location = "not_url" THEN [r EXCEPT !.ret = Err(UrlParseError)]
    ELSE [requests |-> Append(r.requests, Request("location", <<>>)),
          ret |-> Ok("location")]

resolve(url, net) ==
    LET r == get("/resolve", <<<<"url", url>>>>, net) IN
    IF r.ret.err # None THEN r
    ELSE IF net.location = "absent"
    THEN [r EXCEPT !.ret = Err(ApiError("expected location header"))]
    ELSE IF net.location = "not_ascii" THEN [r EXCEPT !.ret = Err(ToStrError)]
    ELSE IF net.location = "not_url" THEN [r EXCEPT !.ret = Err(UrlParseError)]
    ELSE [r EXCEPT !.ret = Ok("location")]

\* The urls a track can name: one that parses and one that does not.
TrackUrls == {"url", "bad"}

\* models::Track, as far as stream and download read it.
Tracks == [streamable : BOOLEAN, downloadable : BOOLEAN,
           stream_url : {None} \cup {Some(u) : u \in TrackUrls},
           download_url : {None} \cup {Some(u) : u \in TrackUrls}]

\* What the servers and the writer do during read_url: the first send, the
\* Location header of its response, the second send, and the copy (the
\* number of bytes written, or None when reading or writing failed).
ReadNets == [first : {"ok", "err"}, location : Locations,
             second : {"ok", "err"}, copy : {None} \cup {Some(n) : n \in 0..MaxBytes}]

\* Client::read_url.
read_url(url, net) ==
    IF url = "bad" THEN [requests |-> <<>>, ret |-> Err(UrlParseError)]
    ELSE LET one == <<Request(url, <<ClientIdPair>>)>>
             two == Append(one, Request("location", <<>>))
             copied(reqs) ==
                 [requests |-> reqs,
                  ret |-> IF net.copy = None THEN Err(IoError)
                          ELSE Ok(net.copy[1])]
         IN
         IF net.first = "err" THEN [requests |-> one, ret |-> Err(HttpError)]
         ELSE IF net.location = "absent" THEN copied(one)
         ELSE IF net.location = "not_ascii"
         THEN [requests |-> one, ret |-> Err(ToStrError)]
         ELSE IF net.location = "not_url"
         THEN [requests |-> one, ret |-> Panicked]
         ELSE IF net.second = "err"
         THEN [requests |-> two, ret |-> Err(HttpError)]
         ELSE copied(two)

\* Client::stream.
stream(track, net) ==
    IF ~track.streamable
    THEN [requests |-> <<>>, ret |-> Err(TrackNotStreamable)]
    ELSE IF track.stream_url = None
    THEN [requests |-> <<>>, ret |-> Panicked]
    ELSE read_url(track.stream_url[1], net)

\* Client::download.
download(track, net) ==
    IF ~track.downloadable
    THEN [requests |-> <<>>, ret |-> Err(TrackNotDownloadable)]
    ELSE IF track.download_url = None
    THEN [requests |-> <<>>, ret |-> Panicked]
    ELSE read_url(track.download_url[1], net)

\* What the server answers to the track search: the send, the status and
\* the body (unreadable, not an array, an array with an element that is no
\* track, or an array of tracks).
TracksNets == {"send_err", "status_4xx", "not_json", "not_array",
               "bad_element", "tracks"}

\* TrackRequestBuilder::get.
tracks_get(b, net) ==
    [requests |-> <<Request("/tracks", <<ClientIdPair>> \o request_params(b))>>,
     ret |-> IF net \in {"send_err", "status_4xx", "not_json"} THEN Err(HttpError)
             ELSE IF net = "not_array"
             THEN Err(ApiError("expected response to be an array"))
             ELSE IF net = "bad_element" THEN Panicked
             ELSE Ok("tracks")]

\* A finished call: what was called, with what, and what came of it.
\* result holds the finished calls in the order they were made.
Call(op, a, r) ==
    [op |-> op, arg |-> a, ret |-> r.ret, requests |-> r.requests]

\* The part of the state the API calls leave alone.
rest == <<resource, options, arg, take, token, owner_token, calls, other,
          traversal>>

\* The setters of TrackRequestBuilder.
SetQuery ==
    /\ \E q \in QueryArgs : track_request' = [track_request EXCEPT !.query = q]
    /\ UNCHANGED <<rest, result>>

SetTags ==
    /\ \E t \in TagsArgs :
        track_request' = [track_request EXCEPT
            !.tags = IF t = None THEN None ELSE Some(join(t[1]))]
    /\ UNCHANGED <<rest, result>>

SetGenres ==
    /\ \E g \in GenresArgs :
        track_request' = [track_request EXCEPT
            !.genres = IF g = None THEN None ELSE Some(join(g[1]))]
    /\ UNCHANGED <<rest, result>>

SetFilter ==
    /\ \E f \in FilterArgs : track_request' = [track_request EXCEPT !.filter = f]
    /\ UNCHANGED <<rest, result>>

SetLicense ==
    /\ \E l \in LicenseArgs : track_request' = [track_request EXCEPT !.license = l]
    /\ UNCHANGED <<rest, result>>

SetIds ==
    /\ \E i \in IdsArgs : track_request' = [track_request EXCEPT !.ids = i]
    /\ UNCHANGED <<rest, result>>

TracksGet ==
    /\ Len(result) < MaxApiCalls
    /\ \E net \in TracksNets :
        result' = Append(result,
            Call("tracks", track_request, tracks_get(track_request, net)))
    /\ UNCHANGED <<rest, track_request>>

Stream ==
    /\ Len(result) < MaxApiCalls
    /\ \E track \in Tracks, net \in ReadNets :
        result' = Append(result,
            Call("stream", <<track, net>>, stream(track, net)))
    /\ UNCHANGED <<rest, track_request>>

Download ==
    /\ Len(result) < MaxApiCalls
    /\ \E track \in Tracks, net \in ReadNets :
        result' = Append(result,
            Call("download", <<track, net>>, download(track, net)))
    /\ UNCHANGED <<rest, track_request>>

ResolveUrl ==
    /\ Len(result) < MaxApiCalls
    /\ \E net \in GetNets :
        result' = Append(result,
            Call("resolve", net, resolve("soundcloud", net)))
    /\ UNCHANGED <<rest, track_request>>

ApiNext ==
    \/ SetQuery \/ SetTags \/ SetGenres \/ SetFilter \/ SetLicense \/ SetIds
    \/ TracksGet \/ Stream \/ Download \/ ResolveUrl

\* A client on which no traversal runs: the resource is a single empty
\* page and its stream is never polled.
ApiInit ==
    /\ server = [p \in Urls |-> UnusedPage]
    /\ status = AllSuccess
    /\ query = <<>>
    /\ options = DefaultOptions
    /\ arg = None
    /\ take = None
    /\ other = None
    /\ token = None
    /\ ApiIdle
    /\ Fresh

ApiSpec == ApiInit /\ [][ApiNext]_vars


\* ------------------------------------------------------------- API claims
\* The finished calls of op.
Calls(op) == {i \in 1..Len(result) : result[i].op = op}

\* C25: the parameters sent by the track builder's get() carry every filter
\* set through a public setter (query, tags, genres, filter, ids, license),
\* each once with the value that was set, and no filter that is unset.
C25_EverySetFilterIsSent ==
    \A i \in Calls("tracks") :
        LET b == result[i].arg
            sends(k, v) ==
                ValuesOf(result[i].requests[1].params, k)
                    = (IF v = None THEN <<>> ELSE v)
        IN  /\ sends("q", b.query)
            /\ sends("tags", b.tags)
            /\ sends("genres", b.genres)
            /\ sends("filter", IF b.filter = None THEN None
                               ELSE Some(to_str(b.filter[1])))
            /\ sends("ids", IF b.ids = None THEN None
                            ELSE Some(join([j \in 1..Len(b.ids[1]) |->
                                            to_string(b.ids[1][j])])))
            /\ sends("license", b.license)

\* C23: stream and download return the number of bytes written or an error
\* value, never abort: TrackNotStreamable for a track that is not
\* streamable, TrackNotDownloadable for one that is not downloadable, and
\* an error value too when the flag is set but the url is absent.
C23_StreamAndDownloadNeverAbort ==
    /\ \A i \in Calls("stream") :
        /\ result[i].ret # Panicked
        /\ ~result[i].arg[1].streamable =>
               result[i].ret = Err(TrackNotStreamable)
    /\ \A i \in Calls("download") :
        /\ result[i].ret # Panicked
        /\ ~result[i].arg[1].downloadable =>
               result[i].ret = Err(TrackNotDownloadable)

\* C24: resolve issues one GET, to /resolve, and none to the Location it is
\* given; from a response that is not an error it returns Ok(the url of the
\* Location header) when the header holds a url, and
\* Err(ApiError("expected location header")) when there is no header; it
\* returns Ok in no other case.
C24_ResolveReturnsTheLocation ==
    \A i \in Calls("resolve") :
        LET net == result[i].arg
            answered == net.send = "ok" /\ net.status # "4xx"
        IN  /\ result[i].requests =
                   <<Request("/resolve", <<ClientIdPair, <<"url", "soundcloud">>>>)>>
            /\ answered /\ net.location = "url" => result[i].ret = Ok("location")
            /\ answered /\ net.location = "absent" =>
                   result[i].ret = Err(ApiError("expected location header"))
            /\ result[i].ret.ok # None => answered /\ net.location = "url"

\* A redirect answered with a Location that is a url, resolved to it.
C24_Witness ==
    \E i \in Calls("resolve") :
        /\ result[i].arg.status = "3xx"
        /\ result[i].arg.location = "url"
        /\ result[i].ret = Ok("location")

====
